---- MODULE Spec2Model ----
(***************************************************************************)
(* Model of ipad/scripts/update_audio_resources.py: the patcher that adds *)
(* the .mp3 files of the Audio directory to the Xcode project manifest    *)
(* (project.pbxproj).                                                     *)
(*                                                                         *)
(* Text is modelled at two levels.  File names, comment bodies, seeds and  *)
(* identifiers are sequences of one-character strings, so that the regular *)
(* expression of get_existing_files, str.endswith, sorted() and the        *)
(* replacement-template parsing of re.sub are computed character by        *)
(* character.  The manifest is a sequence of tokens: a token is one        *)
(* maximal piece of text that the patcher's markers, patterns and records  *)
(* treat as a unit (a marker, a header matched by a pattern, a record, a   *)
(* newline, any other line).                                               *)
(***************************************************************************)
EXTENDS Integers, Sequences, FiniteSets, TLC

(***************************************************************************)
(* Bounds of the model.                                                    *)
(***************************************************************************)
\* number of runs of main() in one behaviour
MaxRuns == 3
\* number of files the Audio directory holds at most
MaxFiles == 3

(***************************************************************************)
(* Characters and file names.                                              *)
(***************************************************************************)
Lower == {"a","b","c","d","e","f","g","h","i","j","k","l","m","n","o","p","q","r","s","t","u","v","w","x","y","z"}
Upper == {"A","B","C","D","E","F","G","H","I","J","K","L","M","N","O","P","Q","R","S","T","U","V","W","X","Y","Z"}
Digit == {"0","1","2","3","4","5","6","7","8","9"}

\* the character class [a-zA-Z0-9_\-] of the pattern of get_existing_files
WordChar == Lower \cup Upper \cup Digit \cup {"_", "-"}

\* the characters \s matches among those that occur in the model
SpaceChar == {" ", "\t", "\n"}

\* code points of the characters that occur in the file names of the model
\* (sorted() compares str values code point by code point)
Ord(c) ==
    CASE c = " "  -> 32
      [] c = "-"  -> 45
      [] c = "."  -> 46
      [] c = "3"  -> 51
      [] c = "\\" -> 92
      [] c = "_"  -> 95
      [] c = "a"  -> 97
      [] c = "b"  -> 98
      [] c = "m"  -> 109
      [] c = "p"  -> 112
      [] c = "q"  -> 113
      [] c = "t"  -> 116
      [] c = "x"  -> 120

\* the file names the Audio directory may hold
FA == <<"a",".","m","p","3">>
FB == <<"b",".","m","p","3">>
\* "a b.mp3": a name with a character outside [a-zA-Z0-9_\-]
FS == <<"a"," ","b",".","m","p","3">>
\* "a\q.mp3": a name with a backslash
FQ == <<"a","\\","q",".","m","p","3">>
\* "a.txt": not an mp3 file
FT == <<"a",".","t","x","t">>

Names == {FA, FB, FS, FQ, FT}

Mp3Ext == <<".","m","p","3">>

\* str.endswith
EndsWith(s, suffix) ==
    /\ Len(s) >= Len(suffix)
    /\ SubSeq(s, Len(s) - Len(suffix) + 1, Len(s)) = suffix

\* s < t for Python str values
RECURSIVE StrLess(_, _)
StrLess(s, t) ==
    IF s = <<>> THEN t # <<>>
    ELSE IF t = <<>> THEN FALSE
    ELSE IF Head(s) = Head(t) THEN StrLess(Tail(s), Tail(t))
    ELSE Ord(Head(s)) < Ord(Head(t))

\* sorted() of a collection of distinct strings
RECURSIVE Sorted(_)
Sorted(S) ==
    IF S = {} THEN <<>>
    ELSE LET least == CHOOSE x \in S : \A y \in S \ {x} : StrLess(x, y)
         IN  <<least>> \o Sorted(S \ {least})

Range(s) == {s[i] : i \in 1..Len(s)}

\* the concatenation of a sequence of sequences
RECURSIVE Concat(_)
Concat(ss) ==
    IF Len(ss) = 0 THEN <<>>
    ELSE IF Len(ss) = 1 THEN ss[1]
    ELSE LET half == Len(ss) \div 2
         IN  Concat(SubSeq(ss, 1, half)) \o Concat(SubSeq(ss, half + 1, Len(ss)))

(***************************************************************************)
(* generate_uuid.                                                          *)
(***************************************************************************)
\* the prefix and the suffix of the seeds: f"fileref_{filename}_v2" and
\* f"buildfile_{filename}_v2"
SeedRef == 
    <<"f","i","l","e","r","e","f","_">>
SeedBuild == 
    <<"b","u","i","l","d","f","i","l","e","_">>
SeedV2 == 
    <<"_","v","2">>

\* the seed of the reference entry written without the file name
FileRefSeed_noName(filename) == SeedRef \o SeedV2

FileRefSeed(filename) == SeedRef \o filename \o SeedV2

\* the seed of the build entry written with the prefix of the reference entry
BuildFileSeed_asFileRef(filename) == SeedRef \o filename \o SeedV2

BuildFileSeed(filename) == SeedBuild \o filename \o SeedV2

\* hashlib.md5(seed.encode()).hexdigest() for the seeds of the model's names
Md5Hex(seed) ==
    CASE seed = FileRefSeed(FA) -> 
           <<"3","5","6","0","8","4","6","6","6","3","4","8","5","8","7","6","0","c","e","f","0","d","3","3","9","f","b","9","b","8","5","7">>
      [] seed = FileRefSeed(FB) -> 
           <<"6","d","7","a","c","e","6","1","9","9","c","4","c","8","d","7","5","6","7","6","d","9","9","9","2","9","3","a","f","7","3","2">>
      [] seed = FileRefSeed(FS) -> 
           <<"1","8","d","5","d","7","1","8","9","1","0","1","1","2","c","3","0","2","7","a","8","4","5","9","1","0","d","d","7","f","1","6">>
      [] seed = FileRefSeed(FQ) -> 
           <<"6","c","a","e","4","d","d","a","0","8","4","f","3","b","4","f","0","c","9","0","1","e","b","2","1","f","8","e","3","a","2","1">>
      [] seed = FileRefSeed(FT) -> 
           <<"a","5","6","f","4","1","6","5","2","f","a","8","7","9","6","3","9","0","f","2","8","e","b","e","c","c","4","0","c","4","f","3">>
      [] seed = BuildFileSeed(FA) -> 
           <<"7","9","f","f","f","e","3","1","7","5","f","9","1","b","e","d","f","a","f","b","8","c","f","8","4","a","1","7","a","1","9","0">>
      [] seed = BuildFileSeed(FB) -> 
           <<"6","5","6","0","b","8","e","3","7","7","e","e","a","f","7","0","a","c","3","4","a","a","5","f","7","e","2","e","5","7","b","1">>
      [] seed = BuildFileSeed(FS) -> 
           <<"d","f","9","c","8","a","f","9","9","7","1","8","5","4","6","5","d","5","a","3","0","d","9","d","7","8","6","3","c","0","5","b">>
      [] seed = BuildFileSeed(FQ) -> 
           <<"f","7","1","0","8","4","8","f","f","d","a","f","a","1","5","f","4","7","6","2","0","e","0","8","9","d","0","a","1","6","d","f">>
      [] seed = BuildFileSeed(FT) -> 
           <<"8","1","2","3","6","7","8","0","c","e","6","e","7","8","5","c","f","b","d","4","4","d","c","a","a","7","6","4","1","a","e","1">>

\* str.upper on one character of a hexadecimal digest
UpperChar(c) ==
    CASE c = "a" -> "A" [] c = "b" -> "B" [] c = "c" -> "C"
      [] c = "d" -> "D" [] c = "e" -> "E" [] c = "f" -> "F"
      [] OTHER -> c

\* hash_obj.hexdigest()[:24].upper()
generate_uuid(seed) ==
    LET hex == Md5Hex(seed)
    IN  [i \in 1..24 |-> UpperChar(hex[i])]

(***************************************************************************)
(* Tokens of the manifest text and the text each one stands for.           *)
(***************************************************************************)
\* '/* End PBXFileReference section */', the marker of the first replace
TxtRefEnd == 
    <<"/","*"," ","E","n","d"," ","P","B","X","F","i","l","e","R","e","f","e","r","e","n","c","e"," ","s","e","c","t","i","o","n"," ","*","/">>
\* '/* End PBXBuildFile section */', the marker of the second replace
TxtBuildEnd == 
    <<"/","*"," ","E","n","d"," ","P","B","X","B","u","i","l","d","F","i","l","e"," ","s","e","c","t","i","o","n"," ","*","/">>
TxtRefBegin == 
    <<"/","*"," ","B","e","g","i","n"," ","P","B","X","F","i","l","e","R","e","f","e","r","e","n","c","e"," ","s","e","c","t","i","o","n"," ","*","/">>
TxtBuildBegin == 
    <<"/","*"," ","B","e","g","i","n"," ","P","B","X","B","u","i","l","d","F","i","l","e"," ","s","e","c","t","i","o","n"," ","*","/">>
\* a text that audio_group_pattern matches
TxtGroupHdr == 
    <<"4","6","9","C","3","3","E","D","2","F","0","7","D","D","4","8","0","0","2","E","9","0","8","D"," ","/","*"," ","A","u","d","i","o"," ","*","/"," ","="," ","{","\n","\t","\t","\t","i","s","a"," ","="," ","P","B","X","G","r","o","u","p",";","\n","\t","\t","\t","c","h","i","l","d","r","e","n"," ","="," ","(">>
\* a text that ipad_resources_pattern matches
TxtPhaseHdr == 
    <<"4","6","B","7","6","0","9","C","2","F","0","2","4","A","D","6","0","0","F","1","A","5","8","7"," ","/","*"," ","R","e","s","o","u","r","c","e","s"," ","*","/"," ","="," ","{","\n","\t","\t","\t","i","s","a"," ","="," ","P","B","X","R","e","s","o","u","r","c","e","s","B","u","i","l","d","P","h","a","s","e",";","\n","\t","\t","\t","b","u","i","l","d","A","c","t","i","o","n","M","a","s","k"," ","="," ","2","1","4","7","4","8","3","6","4","7",";","\n","\t","\t","\t","f","i","l","e","s"," ","="," ","(">>
\* the line that closes a children or files list
TxtClose == 
    <<"\t","\t","\t",")",";">>
\* the fixed parts of the three f-strings of the record loop and of the
\* build phase entry
Tab2 == 
    <<"\t","\t">>
Tab4 == 
    <<"\t","\t","\t","\t">>
TxtOpen == 
    <<" ","/","*"," ">>
\* the reference entry written with a blank after the opening brace
TxtRef1_blankAfterBrace ==
    <<" ","*","/"," ","="," ","{"," ","i","s","a"," ","="," ","P","B","X","F","i","l","e","R","e","f","e","r","e","n","c","e",";"," ","l","a","s","t","K","n","o","w","n","F","i","l","e","T","y","p","e"," ","="," ","a","u","d","i","o",".","m","p","3",";"," ","p","a","t","h"," ","="," ">>
TxtRef1 == 
    <<" ","*","/"," ","="," ","{","i","s","a"," ","="," ","P","B","X","F","i","l","e","R","e","f","e","r","e","n","c","e",";"," ","l","a","s","t","K","n","o","w","n","F","i","l","e","T","y","p","e"," ","="," ","a","u","d","i","o",".","m","p","3",";"," ","p","a","t","h"," ","="," ">>
TxtRef2 == 
    <<";"," ","s","o","u","r","c","e","T","r","e","e"," ","="," ","\"","<","g","r","o","u","p",">","\"",";"," ","}",";">>
TxtBuild1 == 
    <<" ","i","n"," ","R","e","s","o","u","r","c","e","s"," ","*","/"," ","="," ","{","i","s","a"," ","="," ","P","B","X","B","u","i","l","d","F","i","l","e",";"," ","f","i","l","e","R","e","f"," ","="," ">>
TxtBuild2 == 
    <<" ","*","/",";"," ","}",";">>
TxtChild == 
    <<" ","*","/",",">>
TxtPhase == 
    <<" ","i","n"," ","R","e","s","o","u","r","c","e","s"," ","*","/",",">>

\* a token without a file name: a marker, a header, a newline, a fixed line
Fixed(kind) == [k |-> kind, f |-> <<>>, id |-> <<>>, ref |-> <<>>]

NL == Fixed("nl")
RefEnd == Fixed("refEnd")
BuildEnd == Fixed("buildEnd")
RefBegin == Fixed("refBegin")
BuildBegin == Fixed("buildBegin")
GroupHdr == Fixed("groupHdr")
PhaseHdr == Fixed("phaseHdr")
Close == Fixed("close")

\* file_ref: the PBXFileReference entry of filename
FileRefRecord(uuid, filename) ==
    [k |-> "fileRef", f |-> filename, id |-> uuid, ref |-> <<>>]

\* build_file: the PBXBuildFile entry of filename
BuildFileRecord(uuid, refUuid, filename) ==
    [k |-> "buildFile", f |-> filename, id |-> uuid, ref |-> refUuid]

\* the entry of filename in the children of the Audio group
GroupChild(refUuid, filename) ==
    [k |-> "child", f |-> filename, id |-> refUuid, ref |-> <<>>]

\* the entry of filename in the files of the Resources build phase
BuildPhaseEntry(uuid, filename) ==
    [k |-> "phaseEntry", f |-> filename, id |-> uuid, ref |-> <<>>]

\* the characters a token stands for
Render(t) ==
    CASE t.k = "nl"         -> <<"\n">>
      [] t.k = "refEnd"     -> TxtRefEnd
      [] t.k = "buildEnd"   -> TxtBuildEnd
      [] t.k = "refBegin"   -> TxtRefBegin
      [] t.k = "buildBegin" -> TxtBuildBegin
      [] t.k = "groupHdr"   -> TxtGroupHdr
      [] t.k = "phaseHdr"   -> TxtPhaseHdr
      [] t.k = "close"      -> TxtClose
      [] t.k = "fileRef"    ->
            Tab2 \o t.id \o TxtOpen \o t.f \o TxtRef1 \o t.f \o TxtRef2
      [] t.k = "buildFile"  ->
            Tab2 \o t.id \o TxtOpen \o t.f \o TxtBuild1 \o t.ref
                 \o TxtOpen \o t.f \o TxtBuild2
      [] t.k = "child"      -> Tab4 \o t.id \o TxtOpen \o t.f \o TxtChild
      [] t.k = "phaseEntry" -> Tab4 \o t.id \o TxtOpen \o t.f \o TxtPhase

\* '\n'.join(lines), for lines that are tokens
RECURSIVE Join(_)
Join(lines) ==
    IF Len(lines) <= 1 THEN lines
    ELSE <<Head(lines), NL>> \o Join(Tail(lines))

(***************************************************************************)
(* get_existing_files: re.findall of the pattern                           *)
(*   slash star, white space, one or more characters of the class          *)
(*   [a-zA-Z0-9_-] followed by .mp3 (the group), white space, star slash.  *)
(* A match begins where a comment opens and runs over white space,         *)
(* characters of the class, ".mp3" and white space up to the end of the    *)
(* comment; every token of the model closes the comments it opens, so a    *)
(* match lies inside one token and the matches of the text are the         *)
(* matches of its tokens.                                                  *)
(***************************************************************************)
\* the first index from i on whose character is not in class (Len(s)+1 if none)
RECURSIVE SkipWhile(_, _, _)
SkipWhile(s, i, class) ==
    IF i <= Len(s) /\ s[i] \in class THEN SkipWhile(s, i + 1, class) ELSE i

At(s, i, lit) ==
    /\ i + Len(lit) - 1 <= Len(s)
    /\ SubSeq(s, i, i + Len(lit) - 1) = lit

\* the group captured by a match of the pattern that begins at index i of s,
\* as a set: empty when the pattern does not match there.  The quantifiers
\* are greedy and never give back a character that lets the rest match: the
\* character after \s* is no white space, the one after the class is none
\* of the class.
MatchAt(s, i) ==
    IF ~At(s, i, <<"/","*">>) THEN {}
    ELSE LET a == SkipWhile(s, i + 2, SpaceChar)
             b == SkipWhile(s, a, WordChar)
             c == SkipWhile(s, b + 4, SpaceChar)
         IN  IF b > a /\ At(s, b, Mp3Ext) /\ At(s, c, <<"*","/">>)
             THEN {SubSeq(s, a, b + 3)}
             ELSE {}

FindAll(s) == UNION {MatchAt(s, i) : i \in {j \in 1..Len(s) : s[j] = "/"}}

\* the tokens a manifest of the model is made of
Tokens ==
    {Fixed(kind) : kind \in {"nl", "refEnd", "buildEnd", "refBegin",
                             "buildBegin", "groupHdr", "phaseHdr", "close"}}
    \cup UNION {{FileRefRecord(generate_uuid(FileRefSeed(f)), f),
                 BuildFileRecord(generate_uuid(BuildFileSeed(f)),
                                 generate_uuid(FileRefSeed(f)), f),
                 GroupChild(generate_uuid(FileRefSeed(f)), f),
                 BuildPhaseEntry(generate_uuid(BuildFileSeed(f)), f)} :
                f \in Names}

\* the matches of the pattern in the text of each token
Matches == [t \in Tokens |-> FindAll(Render(t))]

MatchesOf(t) == IF t \in Tokens THEN Matches[t] ELSE FindAll(Render(t))

get_existing_files(content) ==
    UNION {MatchesOf(content[i]) : i \in 1..Len(content)}

(***************************************************************************)
(* get_audio_files: the names of os.listdir(AUDIO_DIR) that end in .mp3,   *)
(* sorted.  listing is the sequence os.listdir returns.                    *)
(***************************************************************************)
\* the names returned in the order of the listing, the sort left out
get_audio_files_unsorted(listing) ==
    SelectSeq(listing, LAMBDA f : EndsWith(f, Mp3Ext))

get_audio_files(listing) ==
    Sorted({listing[i] : i \in {j \in 1..Len(listing) : EndsWith(listing[j], Mp3Ext)}})

(***************************************************************************)
(* The replacement template of re.sub.  re.sub parses the template before  *)
(* it searches: a backslash followed by an ASCII letter that is no known   *)
(* escape, by a digit that names no group of the pattern (both patterns    *)
(* have one group), or by nothing raises re.error.  Of the characters      *)
(* after a backslash only those that raise are told apart here; the names  *)
(* of the model hold no backslash followed by 0, 1, g or a known escape.   *)
(***************************************************************************)
KnownEscape == {"a", "b", "f", "n", "r", "t", "v"}

BadEscape(c) ==
    \/ c \in (Lower \cup Upper) \ KnownEscape
    \/ c \in Digit \ {"0", "1"}

\* the backslash at index i of the template begins an escape: the run of
\* backslashes that ends just before it has even length
BeginsEscape(repl, i) ==
    LET before == {j \in 0..(i - 1) : j = 0 \/ repl[j] # "\\"}
        last == CHOOSE j \in before : \A h \in before : h <= j
    IN  repl[i] = "\\" /\ (i - 1 - last) % 2 = 0

TemplateRaises(repl) ==
    \E i \in 1..Len(repl) :
        /\ BeginsEscape(repl, i)
        /\ i = Len(repl) \/ BadEscape(repl[i + 1])

\* the characters of a sequence of tokens
RenderAll(tokens) == Concat([i \in 1..Len(tokens) |-> Render(tokens[i])])

\* r'\1\n' + lines_str, the template of both re.sub calls
Template(linesStr) == <<"\\", "1", "\\", "n">> \o RenderAll(linesStr)

(***************************************************************************)
(* The insertions of main.                                                 *)
(***************************************************************************)
\* the replacement text written without the marker: the lines take the
\* place of the marker
InsertBeforeMarker_dropsMarker(content, marker, linesStr) ==
    Concat([i \in 1..Len(content) |->
              IF content[i] = marker
              THEN linesStr \o <<NL>>
              ELSE <<content[i]>>])

\* content.replace(marker, f'{lines_str}\n' + marker): every occurrence of
\* the marker is replaced
InsertBeforeMarker(content, marker, linesStr) ==
    Concat([i \in 1..Len(content) |->
              IF content[i] = marker
              THEN linesStr \o <<NL, marker>>
              ELSE <<content[i]>>])

\* re.sub(pattern, r'\1\n' + lines_str, content): every match of the pattern
\* (a header token) is replaced by itself, a newline and the lines
InsertIntoRegion(content, header, linesStr) ==
    Concat([i \in 1..Len(content) |->
              IF content[i] = header
              THEN <<header, NL>> \o linesStr
              ELSE <<content[i]>>])

\* the filter left out: every file of the directory counts as missing
MissingFiles_all(audio_files, existing_files) == audio_files

\* missing_files = [f for f in audio_files if f not in existing_files]
MissingFiles(audio_files, existing_files) ==
    SelectSeq(audio_files, LAMBDA f : f \notin existing_files)

\* the early return left out: the run goes on with no missing file
NothingMissing_never(missing_files) == FALSE

\* if not missing_files: ... return
NothingMissing(missing_files) == missing_files = <<>>

\* the identifier derived once, from the last missing file, and used for
\* every reference entry of the run
FileRefsStr_seedOfLast(missing_files) ==
    Join([i \in 1..Len(missing_files) |->
            FileRefRecord(
                generate_uuid(FileRefSeed(missing_files[Len(missing_files)])),
                missing_files[i])])

\* the lists the record loop builds, joined by '\n'
FileRefsStr(missing_files) ==
    Join([i \in 1..Len(missing_files) |->
            FileRefRecord(generate_uuid(FileRefSeed(missing_files[i])),
                          missing_files[i])])

\* the build entries written with their own identifier as fileRef
BuildFilesStr_refersToItself(missing_files) ==
    Join([i \in 1..Len(missing_files) |->
            BuildFileRecord(generate_uuid(BuildFileSeed(missing_files[i])),
                            generate_uuid(BuildFileSeed(missing_files[i])),
                            missing_files[i])])

BuildFilesStr(missing_files) ==
    Join([i \in 1..Len(missing_files) |->
            BuildFileRecord(generate_uuid(BuildFileSeed(missing_files[i])),
                            generate_uuid(FileRefSeed(missing_files[i])),
                            missing_files[i])])

\* the group children collected in reverse: each put in front of the list
GroupChildrenStr_reversed(missing_files) ==
    Join([i \in 1..Len(missing_files) |->
            GroupChild(
                generate_uuid(
                    FileRefSeed(missing_files[Len(missing_files) + 1 - i])),
                missing_files[Len(missing_files) + 1 - i])])

GroupChildrenStr(missing_files) ==
    Join([i \in 1..Len(missing_files) |->
            GroupChild(generate_uuid(FileRefSeed(missing_files[i])),
                       missing_files[i])])

BuildPhaseStr(missing_files) ==
    Join([i \in 1..Len(missing_files) |->
            BuildPhaseEntry(generate_uuid(BuildFileSeed(missing_files[i])),
                            missing_files[i])])

\* the values the variable content takes: after each of the four
\* substitutions in turn
Stages(content, missing_files) ==
    LET c1 == InsertBeforeMarker(content, RefEnd, FileRefsStr(missing_files))
        c2 == InsertBeforeMarker(c1, BuildEnd, BuildFilesStr(missing_files))
        c3 == InsertIntoRegion(c2, GroupHdr, GroupChildrenStr(missing_files))
        c4 == InsertIntoRegion(c3, PhaseHdr, BuildPhaseStr(missing_files))
    IN  <<c1, c2, c3, c4>>

\* the content main holds after its four substitutions
Patched(content, missing_files) == Stages(content, missing_files)[4]

\* the re.sub call on the Audio group raises re.error
GroupSubRaises(missing_files) ==
    TemplateRaises(Template(GroupChildrenStr(missing_files)))

\* the re.sub call on the Resources build phase raises re.error
PhaseSubRaises(missing_files) ==
    TemplateRaises(Template(BuildPhaseStr(missing_files)))

\* one of the two re.sub calls raises re.error
SubRaises(missing_files) ==
    \/ GroupSubRaises(missing_files)
    \/ PhaseSubRaises(missing_files)

\* the substitutions a run completes before it ends or raises
Completed(missing_files) ==
    IF GroupSubRaises(missing_files) THEN 2
    ELSE IF PhaseSubRaises(missing_files) THEN 3
    ELSE 4

(***************************************************************************)
(* What main prints.                                                       *)
(***************************************************************************)
Line(msg, count, filename) == [m |-> msg, n |-> count, f |-> filename]

\* print("All audio files are already in the project!")
PrintInSync == <<Line("All audio files are already in the project!", 0, <<>>)>>

\* the lines printed before the substitutions
PrintFound(missing_files) ==
    <<Line("Found n missing audio files:", Len(missing_files), <<>>)>>
    \o [i \in 1..Len(missing_files) |-> Line("  - f", 0, missing_files[i])]
    \o [i \in 1..Len(missing_files) |->
          Line("Generated refs for f", 0, missing_files[i])]

\* the lines printed after the write
PrintDone(missing_files) ==
    <<Line("Successfully added n audio files to the project!",
           Len(missing_files), <<>>),
      Line("Please rebuild the project in Xcode.", 0, <<>>)>>

(***************************************************************************)
(* The state: the file system main works on, and what its latest run did.  *)
(***************************************************************************)
VARIABLES
    manifestExists,  \* PROJECT_PATH names a file
    manifest,        \* the content of that file (<<>> while there is none)
    dirExists,       \* AUDIO_DIR names a directory
    dir,             \* the names in that directory
    touched,         \* the directory changed since the latest run
    runs,            \* the number of runs of main so far
    result,          \* how the latest run ended
    content0,        \* the content the latest run read
    missing,         \* missing_files of the latest run
    wrote,           \* how often the latest run opened PROJECT_PATH for writing
    out,             \* the lines the latest run printed
    repeat,          \* the latest run began in the state the run before it left
    audio,           \* audio_files of the latest run
    stages           \* the values content took in the latest run, one after
                     \* each substitution it completed

\* The other scripts of the repository, each a program of its own: the three
\* narration generators and create_unreal_assets.
VARIABLES
    program,         \* the script that runs
    pc,              \* where its main stands
    iter,            \* the passes of its loop so far
    posted,          \* the table entries for which requests.post was called
    calls,           \* the calls of generate_audio: entry, outcome of the
                     \* request, value returned
    files0,          \* the output directory before the latest call
    files,           \* the output directory
    success_count,   \* main: success_count
    fail_count,      \* main: fail_count
    stops,           \* the calls of remote_exec.stop()
    ending,          \* how main of create_unreal_assets came to its end
    rc               \* the value main returned (-1: none yet)

patcherVars == <<manifestExists, manifest, dirExists, dir, touched, runs, result,
                 content0, missing, wrote, out, repeat, audio, stages>>

scriptVars == <<program, pc, iter, posted, calls, files0, files, success_count,
                fail_count, stops, ending, rc>>

vars == <<patcherVars, scriptVars>>

\* none of the other scripts runs
ScriptsIdle ==
    /\ program = "update_audio_resources"
    /\ pc = "none"
    /\ iter = 0
    /\ posted = <<>>
    /\ calls = <<>>
    /\ files0 = <<>>
    /\ files = <<>>
    /\ success_count = 0
    /\ fail_count = 0
    /\ stops = 0
    /\ ending = "none"
    /\ rc = -1

\* the records of a file the project already holds
RegisteredRef(f) == FileRefRecord(generate_uuid(FileRefSeed(f)), f)
RegisteredBuild(f) ==
    BuildFileRecord(generate_uuid(BuildFileSeed(f)),
                    generate_uuid(FileRefSeed(f)), f)
RegisteredChild(f) == GroupChild(generate_uuid(FileRefSeed(f)), f)
RegisteredEntry(f) == BuildPhaseEntry(generate_uuid(BuildFileSeed(f)), f)

When(cond, tokens) == IF cond THEN tokens ELSE <<>>

\* a project file: the two sections, the Audio group and the Resources build
\* phase, each with or without the marker or header the patcher looks for;
\* the file may hold the end marker of the reference section a second time,
\* and it may hold the records of a.mp3 already
ProjectFile(hasBuildEnd, hasRefEnd, hasGroup, hasPhase, twice, reg) ==
    <<BuildBegin, NL>>
    \o When(reg, <<RegisteredBuild(FA), NL>>)
    \o When(hasBuildEnd, <<BuildEnd, NL>>)
    \o <<RefBegin, NL>>
    \o When(reg, <<RegisteredRef(FA), NL>>)
    \o When(hasRefEnd, <<RefEnd, NL>>)
    \o When(hasGroup, <<GroupHdr, NL>>
                      \o When(reg, <<RegisteredChild(FA), NL>>)
                      \o <<Close, NL>>)
    \o When(hasPhase, <<PhaseHdr, NL>>
                      \o When(reg, <<RegisteredEntry(FA), NL>>)
                      \o <<Close, NL>>)
    \o When(twice, <<RefEnd, NL>>)

ProjectFiles ==
    {ProjectFile(b, r, g, p, t, reg) :
        <<b, r, g, p, t, reg>> \in
            {x \in BOOLEAN \X BOOLEAN \X BOOLEAN \X BOOLEAN \X BOOLEAN \X BOOLEAN :
                x[5] => x[2]}}

Init ==
    /\ manifestExists \in BOOLEAN
    /\ manifest \in (IF manifestExists THEN ProjectFiles ELSE {<<>>})
    /\ dirExists \in BOOLEAN
    /\ dir = {}
    /\ touched = FALSE
    /\ runs = 0
    /\ result = "none"
    /\ content0 = <<>>
    /\ missing = <<>>
    /\ wrote = 0
    /\ out = <<>>
    /\ repeat = FALSE
    /\ audio = <<>>
    /\ stages = <<>>
    /\ ScriptsIdle

\* a file appears in the Audio directory (the narration scripts write there)
AddFile(f) ==
    /\ dirExists
    /\ runs < MaxRuns
    /\ f \notin dir
    /\ Cardinality(dir) < MaxFiles
    /\ dir' = dir \cup {f}
    /\ touched' = TRUE
    /\ UNCHANGED <<manifestExists, manifest, dirExists, runs, result,
                   content0, missing, wrote, out, repeat, audio, stages,
                   scriptVars>>

\* the orders in which os.listdir may return the names of the directory
Listings(names) ==
    {s \in [1..Cardinality(names) -> names] : Range(s) = names}

\* the project file opened in a mode that creates it: a missing file reads
\* as an empty one
OpenRaises_never == FALSE

\* open(PROJECT_PATH, 'r') raises FileNotFoundError
OpenRaises == ~manifestExists

\* os.listdir(AUDIO_DIR) raises FileNotFoundError
ListdirRaises == ~dirExists

\* a run that ends without reaching the write
Ends(how, read, missing_files, printed) ==
    /\ result' = how
    /\ content0' = read
    /\ missing' = missing_files
    /\ out' = printed
    /\ wrote' = 0
    /\ UNCHANGED <<manifestExists, manifest>>

\* with open(PROJECT_PATH, 'w') as f: f.write(content)
Writes(read, content, missing_files, printed) ==
    /\ result' = "added"
    /\ content0' = read
    /\ missing' = missing_files
    /\ out' = printed
    /\ wrote' = 1
    /\ manifestExists' = TRUE
    /\ manifest' = content

\* one run of main()
Main ==
    /\ runs < MaxRuns
    /\ runs' = runs + 1
    /\ repeat' = (runs > 0 /\ ~touched)
    /\ touched' = FALSE
    /\ UNCHANGED <<dirExists, dir, scriptVars>>
    /\ IF OpenRaises
       THEN /\ Ends("FileNotFoundError: PROJECT_PATH", <<>>, <<>>, <<>>)
            /\ audio' = <<>>
            /\ stages' = <<>>
       ELSE IF ListdirRaises
       THEN /\ Ends("FileNotFoundError: AUDIO_DIR", manifest, <<>>, <<>>)
            /\ audio' = <<>>
            /\ stages' = <<>>
       ELSE \E audio_files \in {get_audio_files(l) : l \in Listings(dir)} :
              LET content == manifest
                  existing_files == get_existing_files(content)
                  missing_files == MissingFiles(audio_files, existing_files)
              IN  /\ audio' = audio_files
                  /\ IF NothingMissing(missing_files)
                     THEN /\ Ends("in sync", content, missing_files, PrintInSync)
                          /\ stages' = <<>>
                     ELSE /\ stages' = SubSeq(Stages(content, missing_files),
                                              1, Completed(missing_files))
                          /\ IF SubRaises(missing_files)
                             THEN Ends("re.error", content, missing_files,
                                       PrintFound(missing_files))
                             ELSE Writes(content, Patched(content, missing_files),
                                         missing_files,
                                         PrintFound(missing_files)
                                         \o PrintDone(missing_files))

Next ==
    \/ \E f \in Names : AddFile(f)
    \/ Main

Spec == Init /\ [][Next]_vars

(***************************************************************************)
(* Vocabulary of the properties.                                           *)
(***************************************************************************)
\* the latest run read the manifest and listed the directory
Scanned == result \in {"in sync", "re.error", "added"}

\* the number of records of one kind that a text holds for a file name
Count(content, kind, f) ==
    Cardinality({i \in 1..Len(content) : content[i].k = kind /\ content[i].f = f})

\* how often a marker or header occurs in a text
Occurs(content, kind) ==
    Cardinality({i \in 1..Len(content) : content[i].k = kind})

\* the .mp3 names of the directory
Mp3Files == {f \in dir : EndsWith(f, Mp3Ext)}

\* the kinds of the tokens the patcher looks for, and the kind of record
\* each region receives
MarkerKinds == {"refEnd", "buildEnd", "groupHdr", "phaseHdr"}

RecordKind(marker) ==
    CASE marker = "refEnd"   -> "fileRef"
      [] marker = "buildEnd" -> "buildFile"
      [] marker = "groupHdr" -> "child"
      [] marker = "phaseHdr" -> "phaseEntry"

\* a project file as Xcode writes it: each marker and each header once
WellFormed(content) == \A marker \in MarkerKinds : Occurs(content, marker) = 1

\* the positions of the markers and headers of a text, the k-th of them, and
\* the text between the k-th and the next (k = 0: the text before the first)
Anchors(content) == {i \in 1..Len(content) : content[i].k \in MarkerKinds}

Kth(content, k) ==
    IF k = 0 THEN 0
    ELSE IF k > Cardinality(Anchors(content)) THEN Len(content) + 1
    ELSE CHOOSE i \in Anchors(content) :
            Cardinality({j \in Anchors(content) : j < i}) = k - 1

Segment(content, k) ==
    SubSeq(content, Kth(content, k) + 1, Kth(content, k + 1) - 1)

\* new is old with text put in only directly before the markers of the
\* kinds `before` and directly after the headers of the kinds `after`: the
\* markers and headers of old are those of new, in the same order, and each
\* stretch between two of them is the old stretch, preceded by new text only
\* behind a header of `after` and followed by new text only in front of a
\* marker of `before`
SplicedOnlyAt(old, new, before, after) ==
    LET n == Cardinality(Anchors(old))
    IN  /\ Cardinality(Anchors(new)) = n
        /\ \A k \in 1..n : new[Kth(new, k)] = old[Kth(old, k)]
        /\ \A k \in 0..n :
             LET s == Segment(old, k)
                 t == Segment(new, k)
             IN  \E p \in 0..(Len(t) - Len(s)) :
                    /\ SubSeq(t, p + 1, p + Len(s)) = s
                    /\ p > 0 => k >= 1 /\ old[Kth(old, k)].k \in after
                    /\ Len(t) - Len(s) - p > 0 =>
                          k < n /\ old[Kth(old, k + 1)].k \in before

(***************************************************************************)
(* C1                                                                      *)
(***************************************************************************)
\* C1: when main runs twice in succession and the Audio directory does not
\* change in between, the manifest after the second run is the manifest
\* after the first run, byte for byte.  Stated for the project files that
\* hold each marker and header once, where the first run fills every region.
C1_SecondRunLeavesManifest ==
    (repeat /\ manifestExists /\ WellFormed(content0)) => manifest = content0

(***************************************************************************)
(* C2                                                                      *)
(***************************************************************************)
\* C2: after one run that came to its end (in sync, or after its write),
\* get_existing_files of the resulting manifest holds every name of the
\* directory that ends in .mp3 (so the next run finds nothing missing).
\* Stated for the project files that hold each marker and header once, where
\* the run fills every region.
C2_AllMp3Registered ==
    (result \in {"in sync", "added"} /\ ~touched /\ WellFormed(content0)) =>
        \A f \in Mp3Files : f \in get_existing_files(manifest)

(***************************************************************************)
(* C3                                                                      *)
(***************************************************************************)
\* C3: from a manifest with at most one reference record per file name,
\* after any number of runs the manifest holds at most one reference record,
\* at most one build-inclusion record and at most one group-membership line
\* per file name.  Stated for the project files that hold each marker and
\* header once.
C3_NoDuplicateRecords ==
    (manifestExists /\ WellFormed(manifest)) =>
        \A f \in Names :
            /\ Count(manifest, "fileRef", f) <= 1
            /\ Count(manifest, "buildFile", f) <= 1
            /\ Count(manifest, "child", f) <= 1

(***************************************************************************)
(* C4                                                                      *)
(***************************************************************************)
\* C4: when every .mp3 name of the directory is already registered in the
\* manifest the run read (the diff is empty), the run does not open the
\* manifest for writing and the manifest is the text the run read.
C4_NoWriteWhenDiffEmpty ==
    (/\ Scanned
     /\ ~touched
     /\ \A f \in Mp3Files : f \in get_existing_files(content0))
    => (wrote = 0 /\ manifest = content0)

\* a run found a.mp3 in the directory and registered in the manifest, and
\* ended without a write
C4_Witness ==
    /\ result = "in sync"
    /\ ~touched
    /\ FA \in dir
    /\ FA \in get_existing_files(content0)
    /\ wrote = 0

(***************************************************************************)
(* C5                                                                      *)
(***************************************************************************)
\* C5: a run that found missing files has put into the manifest, for every
\* missing file, exactly one reference record, exactly one build-inclusion
\* record and exactly one group-membership line and no other text for that
\* file, and for every other file the manifest holds the records it held.
\* Stated for the project files that hold each marker and header once.
C5_ExactlyOneRecordSet ==
    (Scanned /\ missing # <<>> /\ WellFormed(content0)) =>
        \A f \in Names :
            LET added(kind) == Count(manifest, kind, f) - Count(content0, kind, f)
            IN  IF f \in Range(missing)
                THEN /\ added("fileRef") = 1
                     /\ added("buildFile") = 1
                     /\ added("child") = 1
                     /\ added("phaseEntry") = 0
                ELSE \A kind \in {"fileRef", "buildFile", "child", "phaseEntry"} :
                        added(kind) = 0

C7_PartialApplication ==
    (/\ Scanned
     /\ missing # <<>>
     /\ \E marker \in MarkerKinds : Occurs(content0, marker) = 0)
    => /\ result = "added"
       /\ \A marker \in MarkerKinds :
             Occurs(content0, marker) > 0 =>
                \A f \in Range(missing) :
                    Count(manifest, RecordKind(marker), f)
                        > Count(content0, RecordKind(marker), f)

(***************************************************************************)
(* C8                                                                      *)
(***************************************************************************)
\* the regions whose marker or header the text read does not hold, so that
\* their insertion is skipped
Skipped(content) == {marker \in MarkerKinds : Occurs(content, marker) = 0}

\* a printed line is a warning that names a region: main prints nothing but
\* the lines of PrintInSync, PrintFound and PrintDone
WarnsOf(line, marker) ==
    /\ line.m = "Warning: region skipped"
    /\ line.f = <<marker>>

\* C8: a run that skipped an insertion because its marker or header is not
\* in the manifest has printed a warning that names each skipped region.
C8_WarningForSkippedRegion ==
    (result = "added" /\ Skipped(content0) # {}) =>
        \A marker \in Skipped(content0) :
            \E i \in 1..Len(out) : WarnsOf(out[i], marker)

(***************************************************************************)
(* C9                                                                      *)
(***************************************************************************)
\* C9: a run that begins while PROJECT_PATH names no file or AUDIO_DIR names
\* no directory never writes the manifest: no file is created and the
\* content is left as it is.
C9_NoMutationOnConfigError ==
    [][(runs' = runs + 1 /\ (~manifestExists \/ ~dirExists)) =>
          (wrote' = 0 /\ manifestExists' = manifestExists /\ manifest' = manifest)]_vars

\* a run ended with FileNotFoundError for the Audio directory and left the
\* project file, which exists, unwritten
C9_Witness ==
    /\ result = "FileNotFoundError: AUDIO_DIR"
    /\ manifestExists
    /\ manifest # <<>>
    /\ wrote = 0

(***************************************************************************)
(* C10                                                                     *)
(***************************************************************************)
\* C10: a run writes the manifest at most once, and only when the text it
\* writes differs from the text it read; otherwise it writes nothing.
C10_WriteOnlyChanges ==
    /\ wrote <= 1
    /\ wrote > 0 => manifest # content0

(***************************************************************************)
(* Identifiers.                                                            *)
(***************************************************************************)
RecordKinds == {"fileRef", "buildFile", "child", "phaseEntry"}

\* the identifiers (own and referred to) that the records of one kind carry
\* for a file name in a text
IdsOf(content, kind, f) ==
    {<<content[i].id, content[i].ref>> :
        i \in {j \in 1..Len(content) : content[j].k = kind /\ content[j].f = f}}

\* C11: the identifiers derived for a file name are the same in every run:
\* all records of one kind that the project file holds for a file name,
\* whichever run wrote them, from whatever project file and among whatever
\* other files, carry the same identifiers.
C11_SameIdentifierEveryRun ==
    \A f \in Names : \A kind \in RecordKinds :
        Cardinality(IdsOf(manifest, kind, f)) <= 1

\* two runs wrote a reference entry for the same file name, the later one
\* among other missing files
C11_Witness ==
    /\ result = "added"
    /\ Len(missing) >= 2
    /\ \E f \in Range(missing) :
          /\ Count(content0, "fileRef", f) >= 1
          /\ Count(manifest, "fileRef", f) > Count(content0, "fileRef", f)

\* C12: for every file name the identifier of its reference entry differs
\* from the identifier of its build entry: no build entry of the project
\* file refers to itself, and no reference entry shares its identifier with
\* a build entry of the same file name.
C12_RolesHaveDistinctIdentifiers ==
    \A i \in 1..Len(manifest) :
        manifest[i].k = "buildFile" =>
            /\ manifest[i].id # manifest[i].ref
            /\ \A j \in 1..Len(manifest) :
                  (manifest[j].k = "fileRef" /\ manifest[j].f = manifest[i].f)
                      => manifest[j].id # manifest[i].id

\* a run wrote the reference entry and the build entry of a file
C12_Witness ==
    /\ result = "added"
    /\ \E f \in Range(missing) :
          /\ Count(manifest, "fileRef", f) > Count(content0, "fileRef", f)
          /\ Count(manifest, "buildFile", f) > Count(content0, "buildFile", f)

(***************************************************************************)
(* The record syntax.                                                      *)
(***************************************************************************)
\* the record syntax as the specification writes it, with a blank between
\* the opening brace and isa, and as Xcode writes one-line entries, without
BraceBlank == 
    <<"{"," ">>
BraceOnly == 
    <<"{">>

SyntaxComment == 
    <<" ","/","*"," ">>
SyntaxAssign == 
    <<" ","*","/"," ","="," ">>
SyntaxRefKind == 
    <<"i","s","a"," ","="," ","P","B","X","F","i","l","e","R","e","f","e","r","e","n","c","e",";"," ","l","a","s","t","K","n","o","w","n","F","i","l","e","T","y","p","e"," ","="," ","a","u","d","i","o",".","m","p","3",";"," ","p","a","t","h"," ","="," ">>
SyntaxRefTail == 
    <<";"," ","s","o","u","r","c","e","T","r","e","e"," ","="," ","\"","<","g","r","o","u","p",">","\"",";"," ","}",";">>
SyntaxInResources == 
    <<" ","i","n"," ","R","e","s","o","u","r","c","e","s"," ","*","/"," ","="," ">>
SyntaxBuildKind == 
    <<"i","s","a"," ","="," ","P","B","X","B","u","i","l","d","F","i","l","e",";"," ","f","i","l","e","R","e","f"," ","="," ">>
SyntaxBuildTail == 
    <<" ","*","/",";"," ","}",";">>
SyntaxMemberTail == 
    <<" ","*","/",",">>

\* the text the record syntax gives for a record, brace being the text that
\* opens the braces
RecordSyntax(brace, t) ==
    CASE t.k = "fileRef" ->
            Tab2 \o t.id \o SyntaxComment \o t.f \o SyntaxAssign \o brace
                 \o SyntaxRefKind \o t.f \o SyntaxRefTail
      [] t.k = "buildFile" ->
            Tab2 \o t.id \o SyntaxComment \o t.f \o SyntaxInResources \o brace
                 \o SyntaxBuildKind \o t.ref \o SyntaxComment \o t.f
                 \o SyntaxBuildTail
      [] t.k = "child" ->
            Tab4 \o t.id \o SyntaxComment \o t.f \o SyntaxMemberTail

\* the reference entries, build entries and group children that the latest
\* run put into the text it wrote
Emitted ==
    IF result # "added" THEN {}
    ELSE {manifest[i] :
            i \in {j \in 1..Len(manifest) :
                     /\ manifest[j].k \in {"fileRef", "buildFile", "child"}
                     /\ manifest[j].f \in Range(missing)}}

Inserted ==
    {f \in Range(missing) :
        \E kind \in RecordKinds :
            Count(manifest, kind, f) > Count(content0, kind, f)}

\* the counts the latest run printed with a message
Reported(msg) == {out[i].n : i \in {j \in 1..Len(out) : out[j].m = msg}}

\* C14: the number of files a run reports as added is the number of missing
\* files of which the run inserted a record into the project file, and a run
\* that finds nothing missing reports no missing or added file.
C14_ReportedEqualsInserted ==
    /\ result = "added" =>
          Reported("Successfully added n audio files to the project!")
              = {Cardinality(Inserted)}
    /\ result = "in sync" =>
          /\ Reported("Successfully added n audio files to the project!") = {}
          /\ Reported("Found n missing audio files:") = {}

(***************************************************************************)
(* The single substitutions.                                               *)
(***************************************************************************)
\* new is old with the lines and one newline put in at one place, just
\* before a token of the given kind
InsertedOnceBefore(old, new, kind, lines) ==
    \E p \in 1..Len(old) :
        /\ old[p].k = kind
        /\ new = SubSeq(old, 1, p - 1) \o lines \o <<NL>>
                 \o SubSeq(old, p, Len(old))

\* C15: a text that holds the marker comes out of the insertion before the
\* marker with the new lines, joined by newlines, put in exactly once,
\* immediately before the marker and one newline away from it, and the
\* marker still there; so for the reference entries of a run and for its
\* build entries.
C15_InsertedOnceBeforeMarker ==
    Len(stages) >= 2 =>
        /\ Occurs(content0, "refEnd") >= 1 =>
              InsertedOnceBefore(content0, stages[1], "refEnd",
                                 FileRefsStr(missing))
        /\ Occurs(stages[1], "buildEnd") >= 1 =>
              InsertedOnceBefore(stages[1], stages[2], "buildEnd",
                                 BuildFilesStr(missing))

\* the text that goes into the k-th substitution of the latest run
StageIn(k) == IF k = 1 THEN content0 ELSE stages[k - 1]

\* the kind of the marker or header the k-th substitution looks for
StageMarker(k) ==
    CASE k = 1 -> "refEnd"
      [] k = 2 -> "buildEnd"
      [] k = 3 -> "groupHdr"
      [] k = 4 -> "phaseHdr"

\* C16: a substitution whose marker or header does not occur in the text it
\* is given raises nothing and returns that text as it is; so for each of
\* the substitutions a run with missing files comes to.
C16_NoOpWhenAbsent ==
    (Scanned /\ missing # <<>>) =>
        \A k \in 1..4 :
            (Len(stages) >= k - 1 /\ Occurs(StageIn(k), StageMarker(k)) = 0)
                => (Len(stages) >= k /\ stages[k] = StageIn(k))

\* new is old with a newline and the lines put in at one place, just after
\* a token of the given kind
InsertedOnceAfter(old, new, kind, lines) ==
    \E p \in 1..Len(old) :
        /\ old[p].k = kind
        /\ new = SubSeq(old, 1, p) \o <<NL>> \o lines
                 \o SubSeq(old, p + 1, Len(old))

\* C17: when the text holds the header of the Audio group, the insertion
\* into the group puts the new group children directly after the header,
\* before every child the group had, and leaves the header, those children
\* and the rest of the text as they were.
C17_NewChildrenFirst ==
    (Scanned /\ missing # <<>> /\ Len(stages) >= 2
        /\ Occurs(stages[2], "groupHdr") >= 1) =>
            /\ Len(stages) >= 3
            /\ InsertedOnceAfter(stages[2], stages[3], "groupHdr",
                                 GroupChildrenStr(missing))

(***************************************************************************)
(* The scans and the difference.                                           *)
(***************************************************************************)
\* C18: the scan of the project file returns every .mp3 file name of which
\* the text holds a reference entry, whatever characters the name is made
\* of; so for the text each run read.
C18_ScanFindsEveryReference ==
    Scanned =>
        \A f \in Names :
            (EndsWith(f, Mp3Ext) /\ Count(content0, "fileRef", f) >= 1)
                => f \in get_existing_files(content0)

\* C19: the scan of the directory returns the names of the directory that
\* end in .mp3 and no other, each once, in ascending order of their
\* characters, in whatever order the listing came.
C19_AvailableSortedMp3 ==
    (Scanned /\ ~touched) =>
        /\ Range(audio) = Mp3Files
        /\ Len(audio) = Cardinality(Mp3Files)
        /\ \A i, j \in 1..Len(audio) : i < j => StrLess(audio[i], audio[j])

\* a run scanned a directory with several .mp3 files and a file of another
\* kind
C19_Witness ==
    /\ Scanned
    /\ ~touched
    /\ Len(audio) >= 2
    /\ dir # Mp3Files

\* the file names of the lines "Generated refs for ..." of the latest run,
\* one for each pass of the loop that builds the records
Built ==
    LET lines == SelectSeq(out, LAMBDA l : l.m = "Generated refs for f")
    IN  [i \in 1..Len(lines) |-> lines[i].f]

\* the text the latest run ended with
LastStage == IF stages = <<>> THEN content0 ELSE stages[Len(stages)]

\* C20: the missing files of a run are the files of the directory scan that
\* the scan of the project file did not return, in the order of the
\* directory scan; the run builds records for these file names, one after
\* the other, and the text gains records of no other file name.
C20_DiffIsUnregisteredSubsequence ==
    Scanned =>
        /\ Range(missing)
             = {f \in Range(audio) : f \notin get_existing_files(content0)}
        /\ \A i, j \in 1..Len(missing) :
              i < j => \E p, q \in 1..Len(audio) :
                          p < q /\ audio[p] = missing[i] /\ audio[q] = missing[j]
        /\ Built = missing
        /\ \A f \in Names \ Range(missing) : \A kind \in RecordKinds :
              Count(LastStage, kind, f) = Count(content0, kind, f)

\* a run found several files missing and another one registered
C20_Witness ==
    /\ Scanned
    /\ Len(missing) >= 2
    /\ Len(audio) > Len(missing)
    /\ \E f \in Range(missing) :
          Count(LastStage, "fileRef", f) > Count(content0, "fileRef", f)

(***************************************************************************)
(* The records of one run.                                                 *)
(***************************************************************************)
\* the identifiers by which the records of a text point at the reference
\* entry of a file name: the identifier of the reference entry itself, the
\* fileRef of the build entry, the identifier of the group child
RefIdsOf(content, f) ==
    {x[1] : x \in IdsOf(content, "fileRef", f) \cup IdsOf(content, "child", f)}
    \cup {x[2] : x \in IdsOf(content, "buildFile", f)}

\* C21: for every missing file of a run, the fileRef of its build entry and
\* the identifier of its group child are the identifier of its reference
\* entry, and the build entry's own identifier is the one derived from the
\* build-file seed of the file name.
C21_ReferentialIntegrity ==
    (Scanned /\ stages # <<>>) =>
        \A f \in Range(missing) :
            /\ Cardinality(RefIdsOf(LastStage, f)) <= 1
            /\ \A x \in IdsOf(LastStage, "buildFile", f) :
                  x[1] = generate_uuid(BuildFileSeed(f))

\* a run wrote the reference entry, the build entry and the group child of
\* a file
C21_Witness ==
    /\ result = "added"
    /\ \E f \in Range(missing) :
          \A kind \in {"fileRef", "buildFile", "child"} :
              Count(manifest, kind, f) > Count(content0, kind, f)

\* a text holds the comment with the file name alone: in a reference
\* entry, in the fileRef of a build entry or in a group child
HoldsComment(content, f) ==
    \E kind \in {"fileRef", "buildFile", "child"} : Count(content, kind, f) >= 1

\* C22: once the project file holds a text with the comment of a file name
\* (the project files of the model begin with such texts for a.mp3 only;
\* for every other name a run inserted them), every later run takes the
\* file for registered and inserts nothing more for it.
C22_PartialApplicationPermanent ==
    Scanned =>
        \A f \in Names :
            HoldsComment(content0, f) =>
                /\ f \notin Range(missing)
                /\ \A kind \in RecordKinds :
                      Count(LastStage, kind, f) = Count(content0, kind, f)

\* C23: after any number of runs the files list of the Resources build
\* phase holds at most one entry for each file name, whichever of the other
\* markers the project file lacks.
C23_OnePhaseEntryPerFile ==
    \A f \in Names : Count(manifest, "phaseEntry", f) <= 1

\* blk is a block of records of one kind, one for each missing file of the
\* latest run, in ascending order of file name, with newlines only between
\* and around them
SortedBlockOfDiff(blk, kind) ==
    LET recs == SelectSeq(blk, LAMBDA t : t.k # "nl")
    IN  /\ \A i \in 1..Len(recs) : recs[i].k = kind
        /\ Len(recs) = Len(missing)
        /\ {recs[i].f : i \in 1..Len(recs)} = Range(missing)
        /\ \A i \in 1..(Len(recs) - 1) : StrLess(recs[i].f, recs[i + 1].f)

\* the stretch b is the stretch a with one such block at its end or at its
\* beginning
GainedOneBlock(a, b, kind) ==
    /\ Len(b) > Len(a)
    /\ \/ /\ SubSeq(b, 1, Len(a)) = a
          /\ SortedBlockOfDiff(SubSeq(b, Len(a) + 1, Len(b)), kind)
       \/ /\ SubSeq(b, Len(b) - Len(a) + 1, Len(b)) = a
          /\ SortedBlockOfDiff(SubSeq(b, 1, Len(b) - Len(a)), kind)

Entries(content) ==
    {content[i] :
        i \in {j \in 1..Len(content) : content[j].k \in {"fileRef", "buildFile"}}}

\* C25: the seeds are injective over role and file name: the seed of a
\* reference entry is never the seed of a build entry, and two seeds of one
\* role are equal only for equal file names; with the digests of the model,
\* which do not collide, no two entries of the project file share an
\* identifier unless they are of the same role and file name.
C25_SeedsInjective ==
    /\ \A f, g \in Names :
          /\ FileRefSeed(f) # BuildFileSeed(g)
          /\ FileRefSeed(f) = FileRefSeed(g) => f = g
          /\ BuildFileSeed(f) = BuildFileSeed(g) => f = g
    /\ \A t, u \in Entries(manifest) :
          t.id = u.id => (t.k = u.k /\ t.f = u.f)

\* a run wrote the reference entries and the build entries of two files
C25_Witness ==
    /\ result = "added"
    /\ \E f, g \in Range(missing) :
          /\ f # g
          /\ \A h \in {f, g} : \A kind \in {"fileRef", "buildFile"} :
                Count(manifest, kind, h) > Count(content0, kind, h)

(***************************************************************************)
(* The narration generators: generate_audio.py, generate_narrations.py and *)
(* generate_expressive_narrations.py.  Each main walks its table of        *)
(* narrations and calls generate_audio once for each entry.  The table is  *)
(* cut to its first MaxEntries entries, named by their place.  A request   *)
(* ends with a response (status 200 or another one) or with an exception   *)
(* of requests; the write of the file is taken to succeed.                 *)
(***************************************************************************)
MaxEntries == 3

TtsScripts ==
    {"generate_audio", "generate_narrations", "generate_expressive_narrations"}

\* the keys of NARRATION_SCRIPTS or NARRATIONS, in the order of the table
NARRATIONS == [k \in 1..MaxEntries |-> k]

\* the file an entry is written to: f"{filename}.mp3" in generate_audio.py,
\* f"narration_{key}.mp3" in the other two
OutputPath(script, key) ==
    IF script = "generate_audio" THEN <<key, ".mp3">>
    ELSE <<"narration_", key, ".mp3">>

OutputPaths(script) == {OutputPath(script, NARRATIONS[k]) : k \in 1..MaxEntries}

\* what the output directory holds under a name: no file, a file from
\* before the run, or response.content of the request for an entry
NoFile == [from |-> "nothing", audio |-> 0]
OldFile == [from |-> "before", audio |-> 0]
Content(key) == [from |-> "response", audio |-> key]

\* the subclasses of requests.exceptions.RequestException that
\* requests.post raises; without a timeout argument it raises no Timeout
RequestExceptions == {"ConnectionError", "Timeout"}

PostRaises(script) ==
    IF script = "generate_narrations" THEN {"ConnectionError"}
    ELSE RequestExceptions

\* the ways a request ends
Outcomes(script) == {"200", "429"} \cup PostRaises(script)

\* the handler taken away: every exception leaves generate_audio
Catches_nothing(script, exc) == FALSE

\* except requests.exceptions.RequestException in generate_audio.py,
\* except Exception in the other two
Catches(script, exc) ==
    IF script = "generate_audio" THEN exc \in RequestExceptions ELSE TRUE

\* the file written whatever the status of the response
generate_audio_writesAlways(script, key, outcome, dirFiles) ==
    IF outcome \in RequestExceptions
    THEN [ret |-> FALSE, files |-> dirFiles, raised |-> ~Catches(script, outcome)]
    ELSE [ret |-> outcome = "200",
          files |-> [dirFiles EXCEPT ![OutputPath(script, key)] = Content(key)],
          raised |-> FALSE]

\* generate_audio(text, filename): the value returned, the output directory
\* afterwards, and whether an exception leaves the function
generate_audio(script, key, outcome, dirFiles) ==
    IF outcome \in RequestExceptions
    THEN [ret |-> FALSE, files |-> dirFiles, raised |-> ~Catches(script, outcome)]
    ELSE IF outcome = "200"
    THEN [ret |-> TRUE,
          files |-> [dirFiles EXCEPT ![OutputPath(script, key)] = Content(key)],
          raised |-> FALSE]
    ELSE [ret |-> FALSE, files |-> dirFiles, raised |-> FALSE]

\* a narration generator is started: the output directory holds some of the
\* files already
TtsInit ==
    /\ program \in TtsScripts
    /\ pc = "start"
    /\ iter = 0
    /\ posted = <<>>
    /\ calls = <<>>
    /\ files \in [OutputPaths(program) -> {NoFile, OldFile}]
    /\ files0 = files
    /\ success_count = 0
    /\ fail_count = 0
    /\ stops = 0
    /\ ending = "none"
    /\ rc = -1

\* main up to its loop: the banner, the directory made, and in
\* generate_audio.py the check of the connection, whose failure is only
\* printed
TtsStart ==
    /\ program \in TtsScripts
    /\ pc = "start"
    /\ pc' = "loop"
    /\ UNCHANGED <<patcherVars, program, iter, posted, calls, files0, files,
                   success_count, fail_count, stops, ending, rc>>

\* one pass of the loop of main: the call of generate_audio for the next
\* entry, the counters, the sleep
TtsEntry ==
    /\ program \in TtsScripts
    /\ pc = "loop"
    /\ iter < MaxEntries
    /\ \E outcome \in Outcomes(program) :
          LET key == NARRATIONS[iter + 1]
              r == generate_audio(program, key, outcome, files)
          IN  /\ posted' = Append(posted, key)
              /\ calls' = Append(calls, [key |-> key, outcome |-> outcome,
                                         ret |-> r.ret, raised |-> r.raised])
              /\ files0' = files
              /\ files' = r.files
              /\ IF r.raised
                 THEN /\ pc' = "raised"
                      /\ UNCHANGED <<iter, success_count, fail_count>>
                 ELSE /\ pc' = "loop"
                      /\ iter' = iter + 1
                      /\ success_count' = success_count + (IF r.ret THEN 1 ELSE 0)
                      /\ fail_count' = fail_count + (IF r.ret THEN 0 ELSE 1)
    /\ UNCHANGED <<patcherVars, program, stops, ending, rc>>

\* the table is through: main prints the counts and returns
TtsDone ==
    /\ program \in TtsScripts
    /\ pc = "loop"
    /\ iter = MaxEntries
    /\ pc' = "done"
    /\ UNCHANGED <<patcherVars, program, iter, posted, calls, files0, files,
                   success_count, fail_count, stops, ending, rc>>

(***************************************************************************)
(* create_unreal_assets.py: main starts the remote execution, polls for an *)
(* editor, connects to the first one found and runs the command there.     *)
(***************************************************************************)
\* for i in range(10)
MaxPolls == 10

\* remote_exec.stop() put after the try statement instead of into its
\* finally clause: a return in the handler passes it by
AfterTry_stopBehind(stopCount, raised) ==
    IF raised THEN stopCount ELSE stopCount + 1

\* finally: remote_exec.stop(), on every way out of the try statement
AfterTry(stopCount, raised) == stopCount + 1

\* main of create_unreal_assets is started
UeInit ==
    /\ program = "create_unreal_assets"
    /\ pc = "start"
    /\ iter = 0
    /\ posted = <<>>
    /\ calls = <<>>
    /\ files0 = <<>>
    /\ files = <<>>
    /\ success_count = 0
    /\ fail_count = 0
    /\ stops = 0
    /\ ending = "none"
    /\ rc = -1

\* remote_exec = RemoteExecution(); remote_exec.start()
UeStart ==
    /\ program = "create_unreal_assets"
    /\ pc = "start"
    /\ pc' = "poll"
    /\ UNCHANGED <<patcherVars, program, iter, posted, calls, files0, files,
                   success_count, fail_count, stops, ending, rc>>

\* one pass of the discovery loop: sleep, read remote_nodes, leave the loop
\* if there is a node; after the last pass without one, the else clause of
\* the loop stops the remote execution and returns 1
UePoll ==
    /\ program = "create_unreal_assets"
    /\ pc = "poll"
    /\ iter < MaxPolls
    /\ iter' = iter + 1
    /\ \E nodes \in BOOLEAN :
          IF nodes
          THEN /\ pc' = "connect"
               /\ UNCHANGED <<stops, ending, rc>>
          ELSE IF iter + 1 < MaxPolls
          THEN /\ pc' = "poll"
               /\ UNCHANGED <<stops, ending, rc>>
          ELSE /\ pc' = "done"
               /\ stops' = stops + 1
               /\ ending' = "no node"
               /\ rc' = 1
    /\ UNCHANGED <<patcherVars, program, posted, calls, files0, files,
                   success_count, fail_count>>

\* the try statement up to the command: open_command_connection raises, or
\* the connection stands
UeConnect ==
    /\ program = "create_unreal_assets"
    /\ pc = "connect"
    /\ \E raised \in BOOLEAN :
          IF raised
          THEN /\ pc' = "done"
               /\ stops' = AfterTry(stops, TRUE)
               /\ ending' = "exception"
               /\ rc' = 1
          ELSE /\ pc' = "run"
               /\ UNCHANGED <<stops, ending, rc>>
    /\ UNCHANGED <<patcherVars, program, iter, posted, calls, files0, files,
                   success_count, fail_count>>

\* run_command raises, or returns a result that tells success or failure;
\* then the finally clause, and after a result the closing lines and
\* return 0
UeRun ==
    /\ program = "create_unreal_assets"
    /\ pc = "run"
    /\ pc' = "done"
    /\ \E outcome \in {"exception", "failure", "success"} :
          /\ ending' = outcome
          /\ stops' = AfterTry(stops, outcome = "exception")
          /\ rc' = IF outcome = "exception" THEN 1 ELSE 0
    /\ UNCHANGED <<patcherVars, program, iter, posted, calls, files0, files,
                   success_count, fail_count>>

(***************************************************************************)
(* The other scripts as one specification: one of them is started and runs *)
(* to its end.                                                             *)
(***************************************************************************)
PatcherIdle ==
    /\ manifestExists = FALSE
    /\ manifest = <<>>
    /\ dirExists = FALSE
    /\ dir = {}
    /\ touched = FALSE
    /\ runs = 0
    /\ result = "none"
    /\ content0 = <<>>
    /\ missing = <<>>
    /\ wrote = 0
    /\ out = <<>>
    /\ repeat = FALSE
    /\ audio = <<>>
    /\ stages = <<>>

ScriptsInit ==
    /\ PatcherIdle
    /\ TtsInit \/ UeInit

ScriptsNext ==
    \/ TtsStart
    \/ TtsEntry
    \/ TtsDone
    \/ UeStart
    \/ UePoll
    \/ UeConnect
    \/ UeRun

Scripts == ScriptsInit /\ [][ScriptsNext]_vars

LastCall == calls[Len(calls)]

C28_StopExactlyOnce ==
    program = "create_unreal_assets" =>
        /\ iter <= MaxPolls
        /\ pc = "done" <=> stops = 1
        /\ pc # "done" => (stops = 0 /\ rc = -1)
        /\ pc = "done" => ending \in {"no node", "exception", "failure", "success"}
        /\ ending \in {"no node", "exception"} => rc = 1
        /\ ending = "no node" => iter = MaxPolls

\* main returned after an exception in the try statement
C28_Witness ==
    /\ program = "create_unreal_assets"
    /\ pc = "done"
    /\ ending = "exception"
    /\ iter >= 2

====
